---- MODULE Spec2Model ----
(***************************************************************************)
(* Model of datagpt/tool/db/base.py: the Engine facade over a relational   *)
(* database access library (engine, inspector, connections, logger).       *)
(*                                                                         *)
(* Strings that the code inspects or rewrites (the connection URI) are     *)
(* sequences of one-character strings.  Python values whose dynamic type   *)
(* matters are tagged records [t |-> <type>, v |-> <value>].  The library  *)
(* (create_engine, inspect, connect, execute, ...) and the database behind *)
(* it are the environment: every call into them answers with any value of  *)
(* the shape the library documents, or raises.                             *)
(***************************************************************************)
EXTENDS Integers, Sequences, FiniteSets, TLC

VARIABLES
    ctor_uri,        \* the uri argument Engine(uri) was called with
    alive,           \* TRUE iff __init__ returned (create_engine/inspect did not raise)
    self_type,       \* self._type
    self_uri,        \* self._uri
    self_engine,     \* self._engine
    self_inspector,  \* self._inspector
    open_conns,      \* connections checked out of the engine and not yet closed
    log,             \* entries written to datagpt.log.logger, oldest first
    last             \* the most recent method call: arguments, library calls, outcome

vars == <<ctor_uri, alive, self_type, self_uri, self_engine, self_inspector,
          open_conns, log, last>>

(***************************************************************************)
(* Bounds                                                                  *)
(***************************************************************************)
MaxLog == 1      \* log entries kept in the model
MaxRows == 2     \* rows in a result set
MaxTables == 2   \* table names the inspector reports
MaxCols == 2     \* column records the inspector reports

(***************************************************************************)
(* Python values                                                           *)
(***************************************************************************)
PyNone == [t |-> "None"]
PyStr(s) == [t |-> "str", v |-> s]
PyInt(n) == [t |-> "int", v |-> n]
PyDict(d) == [t |-> "dict", v |-> d]
PyList(s) == [t |-> "list", v |-> s]
PyTuple(s) == [t |-> "tuple", v |-> s]

\* outcome of a call: it returns a value or raises an exception
Return(x) == [kind |-> "return", value |-> x]
Raise(e) == [kind |-> "raise", exc |-> e]

\* one call into the library, as observed: function, arguments, outcome
Call(fn, args, resp) == [fn |-> fn, args |-> args, resp |-> resp]

(***************************************************************************)
(* str.startswith and str.replace on character sequences                   *)
(***************************************************************************)
startswith(s, p) == Len(s) >= Len(p) /\ SubSeq(s, 1, Len(p)) = p

RECURSIVE replace(_, _, _)
replace(s, old, new) ==
    IF Len(s) < Len(old) THEN s
    ELSE IF startswith(s, old)
         THEN new \o replace(SubSeq(s, Len(old) + 1, Len(s)), old, new)
         ELSE <<Head(s)>> \o replace(Tail(s), old, new)

S_postgresql == <<"p","o","s","t","g","r","e","s","q","l">>
S_sep == <<":","/","/">>
S_postgresql_bare == S_postgresql \o S_sep
S_postgresql_psycopg == S_postgresql \o <<"+","p","s","y","c","o","p","g">> \o S_sep
S_mysql == <<"m","y","s","q","l">>
S_mariadb == <<"m","a","r","i","a","d","b">>

(***************************************************************************)
(* Constructor arguments explored                                          *)
(***************************************************************************)
UriHeads ==
    { S_postgresql_bare,
      S_postgresql_psycopg,
      S_postgresql \o <<"+","p","g">> \o S_sep,
      <<"p","o","s","t","g","r","e","s">> \o S_sep,
      S_mysql \o S_sep,
      S_mysql \o <<"+","p","y">> \o S_sep,
      S_mariadb \o S_sep,
      <<"s","q","l","i","t","e">> \o S_sep }

UriTails ==
    { <<>>,
      <<"h","/","d">>,
      <<"u","@","h","/","d">>,
      <<"h","?","x","=">> \o S_postgresql_bare \o <<"y">> }

\* the arguments the constructor is explored with
Uris == { h \o t : h \in UriHeads, t \in UriTails }

\* one argument of each family, for exploring the methods
FacadeUris ==
    { h \o <<"h","/","d">> :
        h \in { S_postgresql_bare, S_mysql \o S_sep, <<"s","q","l","i","t","e">> \o S_sep } }

(***************************************************************************)
(* Exceptions (subclasses of Exception) the library raises; str(e) is msg  *)
(***************************************************************************)
Excs ==
    { [cls |-> "OperationalError", msg |-> "e1"],
      [cls |-> "ProgrammingError", msg |-> "e2"] }

str(e) == e.msg

KeyError(key) == [cls |-> "KeyError", msg |-> key]

Unset == [t |-> "unset"]

(***************************************************************************)
(* Engine.__init__                                                         *)
(***************************************************************************)
\* mutant of family_of: the mariadb test is missing
family_of_no_mariadb(uri) ==
    IF startswith(uri, S_postgresql) THEN "PostgreSQL"
    ELSE IF startswith(uri, S_mysql) THEN "MySQL"
    ELSE "Unknown"

\* the dialect family chosen by the if/elif/else chain
family_of(uri) ==
    IF startswith(uri, S_postgresql) THEN "PostgreSQL"
    ELSE IF startswith(uri, S_mysql) \/ startswith(uri, S_mariadb) THEN "MySQL"
    ELSE "Unknown"

\* mutant of rewrite_uri: the result of uri.replace(...) is not assigned
rewrite_uri_discarded(uri) == uri

\* the value of the local uri after the if/elif/else chain
rewrite_uri(uri) ==
    IF startswith(uri, S_postgresql) /\ startswith(uri, S_postgresql_bare)
    THEN replace(uri, S_postgresql_bare, S_postgresql_psycopg)
    ELSE uri

\* create_resp: the outcome of create_engine(uri) followed by inspect(engine)
Engine_init(uri, create_resp) ==
    LET u == rewrite_uri(uri)
        ok == create_resp.kind = "return"
        engine == IF ok THEN [t |-> "engine", url |-> u] ELSE Unset
    IN [ _type |-> family_of(uri),
         _uri |-> u,
         _engine |-> engine,
         _inspector |-> IF ok THEN [t |-> "inspector", bind |-> engine] ELSE Unset,
         calls |-> <<Call("create_engine", [uri |-> u], create_resp)>>,
         out |-> IF ok THEN Return(PyNone) ELSE Raise(create_resp.exc) ]

CreateResps == { Return(PyNone) } \cup { Raise(e) : e \in Excs }

InitOver(uris) ==
    \E uri \in uris, r \in CreateResps :
        LET o == Engine_init(uri, r)
        IN /\ ctor_uri = uri
           /\ alive = (o.out.kind = "return")
           /\ self_type = o._type
           /\ self_uri = o._uri
           /\ self_engine = o._engine
           /\ self_inspector = o._inspector
           /\ open_conns = 0
           /\ log = <<>>
           /\ last = [op |-> "__init__", args |-> [uri |-> uri],
                      calls |-> o.calls, out |-> o.out]

Init == InitOver(FacadeUris)

InitCtor == InitOver(Uris)

(***************************************************************************)
(* Engine.get_type                                                         *)
(***************************************************************************)
get_type_result == [calls |-> <<>>, out |-> Return(PyStr(self_type))]

get_type ==
    /\ alive
    /\ last' = [op |-> "get_type", args |-> [none |-> TRUE],
                calls |-> get_type_result.calls, out |-> get_type_result.out]
    /\ UNCHANGED <<ctor_uri, alive, self_type, self_uri, self_engine,
                   self_inspector, open_conns, log>>

(***************************************************************************)
(* Engine.get_tables                                                       *)
(***************************************************************************)
TableNames == {"a", "b"}

\* sequences without repetition over S, of length at most n
RECURSIVE DistinctSeqs(_, _)
DistinctSeqs(S, n) ==
    IF n = 0 THEN { <<>> }
    ELSE LET shorter == DistinctSeqs(S, n - 1)
             longer == { Append(q, x) : q \in shorter, x \in S }
         IN shorter \cup { q \in longer : \A i, j \in 1..Len(q) : i < j => q[i] # q[j] }

\* sequences over S of length exactly n, and of length at most n
RECURSIVE SeqsOfLen(_, _)
SeqsOfLen(S, n) ==
    IF n = 0 THEN { <<>> }
    ELSE { Append(q, x) : q \in SeqsOfLen(S, n - 1), x \in S }

SeqsUpTo(S, n) == UNION { SeqsOfLen(S, k) : k \in 0..n }

\* Inspector.get_table_names(): a list of names, or an exception
TableNamesResps ==
    { Return(q) : q \in DistinctSeqs(TableNames, MaxTables) }
    \cup { Raise(e) : e \in Excs }

\* Inspector.get_table_comment(name): the dict {"text": <str or None>}, or an
\* exception (a dialect without comment support raises NotImplementedError)
TableCommentResps ==
    { Return(PyDict([text |-> PyNone])),
      Return(PyDict([text |-> PyStr("about")])),
      Raise([cls |-> "NotImplementedError", msg |-> ""]),
      Raise([cls |-> "OperationalError", msg |-> "e1"]) }

TableInfo(name, comment) == [name |-> name, comment |-> comment]

\* mutant of get_tables_comprehension: a table whose comment lookup raises is skipped
RECURSIVE get_tables_comprehension_skip(_, _, _, _, _)
get_tables_comprehension_skip(table_names, cr, i, calls, items) ==
    IF i > Len(table_names) THEN [calls |-> calls, out |-> Return(PyList(items))]
    ELSE LET name == table_names[i]
             c == Call("get_table_comment", [table_name |-> name], cr[i])
         IN get_tables_comprehension_skip(table_names, cr, i + 1, Append(calls, c),
                IF cr[i].kind = "raise" THEN items
                ELSE Append(items, TableInfo(name, cr[i].value)))

\* the list comprehension over table_names, from element i on; cr[i] is what
\* get_table_comment answers for table_names[i]
RECURSIVE get_tables_comprehension(_, _, _, _, _)
get_tables_comprehension(table_names, cr, i, calls, items) ==
    IF i > Len(table_names) THEN [calls |-> calls, out |-> Return(PyList(items))]
    ELSE LET name == table_names[i]
             c == Call("get_table_comment", [table_name |-> name], cr[i])
         IN IF cr[i].kind = "raise"
            THEN [calls |-> Append(calls, c), out |-> Raise(cr[i].exc)]
            ELSE get_tables_comprehension(table_names, cr, i + 1, Append(calls, c),
                                          Append(items, TableInfo(name, cr[i].value)))

get_tables_result(names_resp, cr) ==
    LET c0 == Call("get_table_names", [none |-> TRUE], names_resp)
    IN IF names_resp.kind = "raise"
       THEN [calls |-> <<c0>>, out |-> Raise(names_resp.exc)]
       ELSE get_tables_comprehension(names_resp.value, cr, 1, <<c0>>, <<>>)

get_tables ==
    /\ alive
    /\ \E names_resp \in TableNamesResps :
         \E cr \in SeqsOfLen(TableCommentResps,
                             IF names_resp.kind = "return" THEN Len(names_resp.value) ELSE 0) :
            LET r == get_tables_result(names_resp, cr)
            IN last' = [op |-> "get_tables", args |-> [none |-> TRUE],
                        calls |-> r.calls, out |-> r.out]
    /\ UNCHANGED <<ctor_uri, alive, self_type, self_uri, self_engine,
                   self_inspector, open_conns, log>>

(***************************************************************************)
(* Engine.get_fields                                                       *)
(***************************************************************************)
\* column type descriptors: an object has an attribute iff the record has the
\* field (hasattr); id tells the objects apart
T_integer == [t |-> "type", id |-> "INTEGER()", __visit_name__ |-> PyStr("INTEGER")]
T_varchar == [t |-> "type", id |-> "VARCHAR(32)", __visit_name__ |-> PyStr("VARCHAR"),
              length |-> PyInt(32)]
T_text == [t |-> "type", id |-> "TEXT()", __visit_name__ |-> PyStr("TEXT"),
           length |-> PyNone]
T_opaque == [t |-> "type", id |-> "opaque(8)", length |-> PyInt(8)]

hasattr(obj, attr) == attr \in DOMAIN obj

\* the dicts Inspector.get_columns() yields; "comment" is a key the dialect may omit
FieldRecords ==
    { [name |-> "id", type |-> T_integer, default |-> PyNone, nullable |-> FALSE,
       comment |-> PyNone],
      [name |-> "nm", type |-> T_varchar, default |-> PyStr("''"), nullable |-> TRUE,
       comment |-> PyStr("the name")],
      [name |-> "tx", type |-> T_text, default |-> PyNone, nullable |-> TRUE,
       comment |-> PyNone],
      [name |-> "op", type |-> T_opaque, default |-> PyStr("0"), nullable |-> FALSE,
       comment |-> PyStr("raw")],
      [name |-> "nc", type |-> T_integer, default |-> PyNone, nullable |-> TRUE] }

\* the columns of one table have different names
ColumnsResps ==
    { Return(q) : q \in DistinctSeqs(FieldRecords, MaxCols) }
    \cup { Raise([cls |-> "NoSuchTableError", msg |-> "e1"]) }

\* the schema argument as the caller wrote it
Omitted == [t |-> "omitted"]
SchemaArgs == { Omitted, PyStr("s1") }

\* binding of the parameter schema: str = "public"
schema_param(schema_arg) == IF schema_arg = Omitted THEN PyStr("public") ELSE schema_arg

\* mutant of schema_passed: the schema is dropped for the MySQL family only
schema_passed_mysql_only(type, schema) == IF type = "MySQL" THEN PyNone ELSE schema

\* the schema handed to get_columns
schema_passed(type, schema) == IF type # "PostgreSQL" THEN PyNone ELSE schema

FieldInfo(col_name, col_type, col_length, col_default, is_nullable, col_comment) ==
    [col_name |-> col_name, col_type |-> col_type, col_length |-> col_length,
     col_default |-> col_default, is_nullable |-> is_nullable,
     col_comment |-> col_comment]

\* f.col_type after the __visit_name__ probe
field_col_type(type) ==
    IF hasattr(type, "__visit_name__") THEN type.__visit_name__ ELSE type

\* mutant of field_col_length: the length probe is missing
field_col_length_unset(type) == PyNone

\* f.col_length after the length probe
field_col_length(type) ==
    IF hasattr(type, "length") THEN type.length ELSE PyNone

\* the for loop over field_records, from element i on
RECURSIVE get_fields_loop(_, _, _)
get_fields_loop(field_records, i, table_fields) ==
    IF i > Len(field_records) THEN Return(PyList(table_fields))
    ELSE LET field == field_records[i]
         IN IF ~ ("comment" \in DOMAIN field) THEN Raise(KeyError("'comment'"))
            ELSE get_fields_loop(field_records, i + 1,
                     Append(table_fields,
                            FieldInfo(field.name, field_col_type(field.type),
                                      field_col_length(field.type), field.default,
                                      field.nullable, field.comment)))

get_fields_result(type, table_name, schema_arg, columns_resp) ==
    LET schema == schema_passed(type, schema_param(schema_arg))
        c0 == Call("get_columns", [table_name |-> table_name, schema |-> schema],
                   columns_resp)
    IN [calls |-> <<c0>>,
        out |-> IF columns_resp.kind = "raise" THEN Raise(columns_resp.exc)
                ELSE get_fields_loop(columns_resp.value, 1, <<>>)]

get_fields ==
    /\ alive
    /\ \E table_name \in {"a"}, schema_arg \in SchemaArgs, columns_resp \in ColumnsResps :
            LET r == get_fields_result(self_type, table_name, schema_arg, columns_resp)
            IN last' = [op |-> "get_fields",
                        args |-> [table_name |-> table_name, schema |-> schema_arg],
                        calls |-> r.calls, out |-> r.out]
    /\ UNCHANGED <<ctor_uri, alive, self_type, self_uri, self_engine,
                   self_inspector, open_conns, log>>

(***************************************************************************)
(* Engine.run                                                              *)
(***************************************************************************)
Commands == { "SELECT 1 AS x", "SELECT * FROM nonexistent_table" }

\* a result set: column names and rows of that width
RowsOfWidth(w) == { PyTuple(q) : q \in SeqsOfLen({ PyInt(1), PyInt(2) }, w) }
ResultSets ==
    { [cols |-> c, rows |-> q] :
        c \in { <<PyStr("x")>> }, q \in SeqsUpTo(RowsOfWidth(1), MaxRows) }
    \cup { [cols |-> c, rows |-> q] :
        c \in { <<PyStr("x"), PyStr("y")>> },
        q \in SeqsUpTo({ PyTuple(<<PyInt(1), PyInt(2)>>) }, MaxRows) }

\* what the library does during one run: the step that raises (if any), the
\* exception it raises there, and the result set the statement produces
NoResult == [cols |-> <<>>, rows |-> <<>>]
NoExc == [cls |-> "none", msg |-> ""]
RunEnvs ==
    [ fail_at : { "connect", "execute", "fetchall" }, exc : Excs, result : { NoResult } ]
    \cup [ fail_at : { "keys" }, exc : Excs, result : ResultSets ]
    \cup [ fail_at : { "none" }, exc : { NoExc }, result : ResultSets ]

Resp(env, step, value) == IF env.fail_at = step THEN Raise(env.exc) ELSE Return(value)

\* a string as the sequence of the pieces it was concatenated from
concat(a, b) == a \o b
log_line(e) == concat(<<"run sql error: ">>, <<str(e)>>)

\* mutant of run_rows: the header is appended instead of inserted at 0
run_rows_append(cols, rows) == PyList(rows \o <<PyTuple(cols)>>)

\* rows.insert(0, tuple([col for col in cols])); return rows
run_rows(cols, rows) == PyList(<<PyTuple(cols)>> \o rows)

\* mutant of run_with: no with statement, conn.close() only at the end of the block
run_with_leak(command, env) ==
    LET c_connect == Call("connect", [none |-> TRUE], Resp(env, "connect", PyNone))
        c_execute == Call("execute", [text |-> command], Resp(env, "execute", PyNone))
        c_fetchall == Call("fetchall", [none |-> TRUE],
                           Resp(env, "fetchall", PyList(env.result.rows)))
        c_keys == Call("keys", [none |-> TRUE], Resp(env, "keys", env.result.cols))
        c_close == Call("close", [none |-> TRUE], Return(PyNone))
    IN IF env.fail_at = "connect"
       THEN [calls |-> <<c_connect>>, out |-> Raise(env.exc)]
       ELSE IF env.fail_at = "execute"
       THEN [calls |-> <<c_connect, c_execute>>, out |-> Raise(env.exc)]
       ELSE IF env.fail_at = "fetchall"
       THEN [calls |-> <<c_connect, c_execute, c_fetchall>>, out |-> Raise(env.exc)]
       ELSE IF env.fail_at = "keys"
       THEN [calls |-> <<c_connect, c_execute, c_fetchall, c_keys>>,
             out |-> Raise(env.exc)]
       ELSE [calls |-> <<c_connect, c_execute, c_fetchall, c_keys, c_close>>,
             out |-> Return(PyList(<<PyTuple(env.result.cols)>> \o env.result.rows))]

\* the with statement: connect, the block, and close on every way out of the block
run_with(command, env) ==
    LET c_connect == Call("connect", [none |-> TRUE], Resp(env, "connect", PyNone))
        c_execute == Call("execute", [text |-> command], Resp(env, "execute", PyNone))
        c_fetchall == Call("fetchall", [none |-> TRUE],
                           Resp(env, "fetchall", PyList(env.result.rows)))
        c_keys == Call("keys", [none |-> TRUE], Resp(env, "keys", env.result.cols))
        c_close == Call("close", [none |-> TRUE], Return(PyNone))
    IN IF env.fail_at = "connect"
       THEN [calls |-> <<c_connect>>, out |-> Raise(env.exc)]
       ELSE IF env.fail_at = "execute"
       THEN [calls |-> <<c_connect, c_execute, c_close>>, out |-> Raise(env.exc)]
       ELSE IF env.fail_at = "fetchall"
       THEN [calls |-> <<c_connect, c_execute, c_fetchall, c_close>>,
             out |-> Raise(env.exc)]
       ELSE IF env.fail_at = "keys"
       THEN [calls |-> <<c_connect, c_execute, c_fetchall, c_keys, c_close>>,
             out |-> Raise(env.exc)]
       ELSE [calls |-> <<c_connect, c_execute, c_fetchall, c_keys, c_close>>,
             out |-> Return(run_rows(env.result.cols, env.result.rows))]

\* mutant of run_result: the handler logs and re-raises
run_result_reraise(command, env) ==
    LET w == run_with(command, env)
    IN IF w.out.kind = "raise"
       THEN [calls |-> w.calls, logged |-> <<log_line(w.out.exc)>>, out |-> w.out]
       ELSE [calls |-> w.calls, logged |-> <<>>, out |-> w.out]

\* try: ... except Exception as e: logger.error(...); return "SqlError"
run_result(command, env) ==
    LET w == run_with(command, env)
    IN IF w.out.kind = "raise"
       THEN [calls |-> w.calls, logged |-> <<log_line(w.out.exc)>>,
             out |-> Return(PyStr("SqlError"))]
       ELSE [calls |-> w.calls, logged |-> <<>>, out |-> w.out]

\* connections a sequence of library calls leaves checked out
RECURSIVE net_open(_)
net_open(calls) ==
    IF calls = <<>> THEN 0
    ELSE net_open(Tail(calls))
         + (IF Head(calls).fn = "connect" /\ Head(calls).resp.kind = "return" THEN 1
            ELSE IF Head(calls).fn = "close" THEN -1 ELSE 0)

\* mutant of run: the handler also drops the engine handle
run_reset_engine ==
    /\ alive
    /\ \E command \in Commands, env \in RunEnvs :
            LET w == run_with(command, env)
                failed == w.out.kind = "raise"
            IN /\ Len(log) + (IF failed THEN 1 ELSE 0) <= MaxLog
               /\ last' = [op |-> "run", args |-> [command |-> command],
                           calls |-> w.calls,
                           out |-> IF failed THEN Return(PyStr("SqlError")) ELSE w.out]
               /\ log' = IF failed THEN Append(log, log_line(w.out.exc)) ELSE log
               /\ open_conns' = open_conns + net_open(w.calls)
               /\ self_engine' = IF failed THEN Unset ELSE self_engine
    /\ UNCHANGED <<ctor_uri, alive, self_type, self_uri, self_inspector>>

run ==
    /\ alive
    /\ \E command \in Commands, env \in RunEnvs :
            LET r == run_result(command, env)
            IN /\ Len(log) + Len(r.logged) <= MaxLog
               /\ last' = [op |-> "run", args |-> [command |-> command],
                           calls |-> r.calls, out |-> r.out]
               /\ log' = log \o r.logged
               /\ open_conns' = open_conns + net_open(r.calls)
    /\ UNCHANGED <<ctor_uri, alive, self_type, self_uri, self_engine, self_inspector>>

Next ==
    \/ get_type
    \/ get_tables
    \/ get_fields
    \/ run

Spec == Init /\ [][Next]_vars

\* the constructor over the whole set of arguments, followed by get_type
NextCtor == get_type

SpecCtor == InitCtor /\ [][NextCtor]_vars

(***************************************************************************)
(* Reading the record of the most recent call                              *)
(***************************************************************************)
\* some library call of the sequence raised
Failed(calls) == \E i \in DOMAIN calls : calls[i].resp.kind = "raise"

\* the first library call of the sequence that raised
FirstFailure(calls) ==
    calls[CHOOSE i \in DOMAIN calls :
            /\ calls[i].resp.kind = "raise"
            /\ \A j \in 1..(i - 1) : calls[j].resp.kind = "return"]

\* the call to fn in the sequence
CallTo(calls, fn) == calls[CHOOSE i \in DOMAIN calls : calls[i].fn = fn]

Contains(line, piece) == \E k \in DOMAIN line : line[k] = piece

(***************************************************************************)
(* C1: whenever connect, execute, fetchall or keys raises during run, run  *)
(* returns the string "SqlError" (not a list of rows, and nothing is       *)
(* raised to the caller) and appends exactly one entry to the log, which   *)
(* contains the text of the exception that was raised.                     *)
(***************************************************************************)
C1_RunSwallowsFailure ==
    [][ (last'.op = "run" /\ Failed(last'.calls)) =>
          /\ last'.out = Return(PyStr("SqlError"))
          /\ Len(log') = Len(log) + 1
          /\ SubSeq(log', 1, Len(log)) = log
          /\ Contains(log'[Len(log')], str(FirstFailure(last'.calls).resp.exc)) ]_vars

C1_Witness ==
    /\ last.op = "run"
    /\ Failed(last.calls)
    /\ FirstFailure(last.calls).fn = "fetchall"
    /\ last.out = Return(PyStr("SqlError"))
    /\ Len(log) = 1

(***************************************************************************)
(* C2: when every library call of run returns and fetchall yields n rows,  *)
(* run returns a list of n+1 elements: first the tuple of the column names *)
(* in the order keys() gave them, then the rows in the order fetchall gave *)
(* them.                                                                   *)
(***************************************************************************)
C2_RunPrependsHeader ==
    (last.op = "run" /\ ~Failed(last.calls)) =>
        LET rows == CallTo(last.calls, "fetchall").resp.value.v
            cols == CallTo(last.calls, "keys").resp.value
        IN /\ last.out.kind = "return"
           /\ last.out.value.t = "list"
           /\ Len(last.out.value.v) = Len(rows) + 1
           /\ last.out.value.v[1] = PyTuple(cols)
           /\ \A i \in 1..Len(rows) : last.out.value.v[i + 1] = rows[i]

C2_Witness ==
    /\ last.op = "run"
    /\ ~Failed(last.calls)
    /\ last.out = Return(PyList(<<PyTuple(<<PyStr("x")>>), PyTuple(<<PyInt(2)>>),
                                   PyTuple(<<PyInt(1)>>)>>))

(***************************************************************************)
(* C3: every connection a run call acquires is closed before the call      *)
(* returns, whether the block returned or execute, fetchall or keys        *)
(* raised; between calls no connection opened by run is checked out.       *)
(***************************************************************************)
C3_RunReleasesConnection ==
    /\ open_conns = 0
    /\ last.op = "run" =>
          \A i \in DOMAIN last.calls :
              (last.calls[i].fn = "connect" /\ last.calls[i].resp.kind = "return") =>
                  /\ \E j \in DOMAIN last.calls : j > i /\ last.calls[j].fn = "close"
                  /\ last.calls[Len(last.calls)].fn = "close"

C3_Witness ==
    /\ last.op = "run"
    /\ Failed(last.calls)
    /\ FirstFailure(last.calls).fn = "execute"
    /\ last.calls[1].resp.kind = "return"
    /\ open_conns = 0

(***************************************************************************)
(* C4: for a constructor argument beginning with postgresql://, get_type   *)
(* returns PostgreSQL, and the stored URI no longer begins with            *)
(* postgresql:// but with the driver-qualified postgresql+psycopg://, and  *)
(* is the URI create_engine was called with.                               *)
(***************************************************************************)
C4_PostgresqlRewritten ==
    (alive /\ startswith(ctor_uri, S_postgresql_bare)) =>
        /\ self_type = "PostgreSQL"
        /\ ~startswith(self_uri, S_postgresql_bare)
        /\ startswith(self_uri, S_postgresql_psycopg)
        /\ self_engine.url = self_uri
        /\ last.op = "__init__" => last.calls[1].args.uri = self_uri
        /\ last.op = "get_type" => last.out = Return(PyStr("PostgreSQL"))

C4_Witness ==
    /\ alive
    /\ startswith(ctor_uri, S_postgresql_bare)
    /\ last.op = "get_type"
    /\ self_uri # ctor_uri

(***************************************************************************)
(* C5: for a constructor argument beginning with mysql or mariadb,         *)
(* get_type returns MySQL; for one beginning with none of postgresql,      *)
(* mysql, mariadb it returns Unknown; in both cases the stored URI, and    *)
(* the URI create_engine was called with, is the argument unchanged.       *)
(***************************************************************************)
C5_OtherFamilies ==
    LET my == startswith(ctor_uri, S_mysql) \/ startswith(ctor_uri, S_mariadb)
        other == ~my /\ ~startswith(ctor_uri, S_postgresql)
        family == IF my THEN "MySQL" ELSE "Unknown"
    IN (alive /\ (my \/ other)) =>
        /\ self_type = family
        /\ self_uri = ctor_uri
        /\ self_engine.url = ctor_uri
        /\ last.op = "__init__" => last.calls[1].args.uri = ctor_uri
        /\ last.op = "get_type" => last.out = Return(PyStr(family))

C5_Witness ==
    /\ alive
    /\ startswith(ctor_uri, S_mysql)
    /\ \E i \in 2..(Len(ctor_uri) - Len(S_postgresql_bare)) :
          SubSeq(ctor_uri, i, i + Len(S_postgresql_bare) - 1) = S_postgresql_bare
    /\ self_uri = ctor_uri
    /\ last.op = "get_type"
    /\ last.out = Return(PyStr("MySQL"))

(***************************************************************************)
(* C6: get_fields hands get_columns the schema None whenever the family is *)
(* not PostgreSQL, whatever the caller passed; when the family is          *)
(* PostgreSQL it hands over the caller's schema, "public" if omitted.      *)
(***************************************************************************)
C6_SchemaPassed ==
    last.op = "get_fields" =>
        LET c == last.calls[1]
        IN /\ c.fn = "get_columns"
           /\ c.args.table_name = last.args.table_name
           /\ self_type # "PostgreSQL" => c.args.schema = PyNone
           /\ self_type = "PostgreSQL" =>
                 c.args.schema = (IF last.args.schema = Omitted THEN PyStr("public")
                                  ELSE last.args.schema)

C6_Witness ==
    /\ last.op = "get_fields"
    /\ self_type = "Unknown"
    /\ last.args.schema = PyStr("s1")
    /\ last.calls[1].args.schema = PyNone

(***************************************************************************)
(* C7: get_tables returns one TableInfo per name get_table_names reported, *)
(* in that order and with that name, and each comment is a string or None  *)
(* (None for a table without comment).                                     *)
(***************************************************************************)
C7_TableInfoPerName ==
    (last.op = "get_tables" /\ ~Failed(last.calls)) =>
        LET names == last.calls[1].resp.value
        IN /\ last.out.kind = "return"
           /\ Len(last.out.value.v) = Len(names)
           /\ \A i \in 1..Len(names) :
                 /\ last.out.value.v[i].name = names[i]
                 /\ last.out.value.v[i].comment.t \in {"str", "None"}

(***************************************************************************)
(* C8: get_fields returns one FieldInfo per record of get_columns, in      *)
(* order; name, default, nullable and comment are the record's; col_length *)
(* is the type descriptor's length when the descriptor has a length        *)
(* attribute and None otherwise, so it is not None only for a descriptor   *)
(* with a length.                                                          *)
(***************************************************************************)
C8_FieldInfoPerRecord ==
    (last.op = "get_fields" /\ last.out.kind = "return") =>
        LET recs == last.calls[1].resp.value
            fs == last.out.value.v
        IN /\ Len(fs) = Len(recs)
           /\ \A i \in 1..Len(recs) :
                 /\ fs[i].col_name = recs[i].name
                 /\ fs[i].col_default = recs[i].default
                 /\ fs[i].is_nullable = recs[i].nullable
                 /\ fs[i].col_comment = recs[i].comment
                 /\ "length" \in DOMAIN recs[i].type => fs[i].col_length = recs[i].type.length
                 /\ "length" \notin DOMAIN recs[i].type => fs[i].col_length = PyNone
                 /\ fs[i].col_length # PyNone => "length" \in DOMAIN recs[i].type

C8_Witness ==
    /\ last.op = "get_fields"
    /\ last.out.kind = "return"
    /\ Len(last.out.value.v) = 2
    /\ last.out.value.v[1].col_length = PyInt(32)
    /\ last.out.value.v[2].col_name = "id"
    /\ last.out.value.v[2].col_length = PyNone

(***************************************************************************)
(* C9: when an inspector call raises during get_tables or get_fields       *)
(* (get_table_names, get_table_comment for any table, get_columns), the    *)
(* method raises that exception: it returns neither a partial list nor a   *)
(* sentinel, makes no further library call (no retry), and logs nothing.   *)
(***************************************************************************)
C9_IntrospectionPropagates ==
    [][ (last'.op \in {"get_tables", "get_fields"} /\ Failed(last'.calls)) =>
          /\ last'.out = Raise(FirstFailure(last'.calls).resp.exc)
          /\ last'.calls[Len(last'.calls)] = FirstFailure(last'.calls)
          /\ \A i, j \in DOMAIN last'.calls :
                (i # j) => [fn |-> last'.calls[i].fn, args |-> last'.calls[i].args]
                           # [fn |-> last'.calls[j].fn, args |-> last'.calls[j].args]
          /\ log' = log ]_vars

C9_Witness ==
    /\ last.op = "get_tables"
    /\ Len(last.calls) = 3
    /\ last.calls[2].resp.kind = "return"
    /\ last.calls[3].resp.kind = "raise"
    /\ last.out.kind = "raise"

(***************************************************************************)
(* C10: once the constructor has returned, no call of get_type,            *)
(* get_tables, get_fields or run (returning or failing) changes _type,     *)
(* _uri, _engine or _inspector, and get_type returns the same family       *)
(* every time.                                                             *)
(***************************************************************************)
C10_FacadeStateConstant ==
    [][ alive =>
          /\ alive'
          /\ self_type' = self_type
          /\ self_uri' = self_uri
          /\ self_engine' = self_engine
          /\ self_inspector' = self_inspector
          /\ last'.op = "get_type" => last'.out = Return(PyStr(self_type)) ]_vars

C10_Witness ==
    /\ alive
    /\ Len(log) = 1
    /\ last.op = "get_type"
    /\ self_engine = [t |-> "engine", url |-> self_uri]

====
